---- MODULE Spec2Model ----
(***************************************************************************)
(* A state-machine model of sde_project/api.py: the FastAPI service that   *)
(* loads a regression model, a scaler, label encoders and the incident     *)
(* dataset at startup (load_artifacts) and then answers /health,           *)
(* /metadata, /globe_data, /predict, /history, /similar and                *)
(* /genai/advisory.                                                        *)
(*                                                                         *)
(* Conventions.  A Python global that may be None (or, for country_stats,  *)
(* not yet bound) is an option: <<>> is None/unbound, <<v>> is the value   *)
(* v.  Floats returned by the regression model are fixed-point thousandths *)
(* and the rounded prediction is in hundredths.  F-strings are sequences   *)
(* of segments, the interpolated values being segments of their own.       *)
(***************************************************************************)
EXTENDS Integers, Sequences, FiniteSets, Bags, TLC

VARIABLES
    fs,             \* what is on disk at startup: status of the four files
    encFile,        \* the dict pickled in encoders.joblib
    modelFile,      \* the regressor pickled in xgboost_model.joblib
    csv,            \* the rows of gt.csv (the columns the service reads)
    environ,        \* GEMINI_API_KEY in the process environment (api.py:200)
    pc,             \* "boot" before the startup hook has run, then "serving"
    model,          \* api.py:23
    scaler,         \* api.py:24
    encoders,       \* api.py:25
    df_data,        \* api.py:26
    country_stats,  \* api.py:78 (unbound until assigned)
    req,            \* the request last answered (its inputs)
    resp,           \* the response to it
    pending         \* the bag of advisory requests whose handlers are
                    \* inside generate_content (api.py:221)

vars == <<fs, encFile, modelFile, csv, environ, pc, model, scaler, encoders,
          df_data, country_stats, req, resp, pending>>

None == <<>>
Some(v) == <<v>>
IsNone(o) == o = <<>>
Get(o) == o[1]

Range(s) == { s[i] : i \in 1..Len(s) }

-----------------------------------------------------------------------------
(* Bounds of the model.                                                    *)

\* longest dataset enumerated row by row
MaxRows == 3
\* half the number of rows of a long dataset, which is longer than the
\* /similar cut-off
BigReps == 26
\* the worker threads the routes run on.  Every route of api.py is a plain
\* `def`, which the framework runs on a thread pool (40 threads by its
\* default); the pool is scaled down here.
Workers == 2

-----------------------------------------------------------------------------
(* Vocabulary of the inputs.                                               *)

JoblibStatus == {"absent", "unreadable", "ok"}
\* "badcell": the file parses but a numeric column holds text, so that
\* astype (api.py:75) raises after df_data has been assigned
CsvStatus == {"absent", "unreadable", "badcell", "ok"}

CatCols == <<"attacktype1_txt", "targtype1_txt", "weaptype1_txt">>
Fields == {"iyear", "imonth", "iday", "country", "region",
           "attacktype1_txt", "targtype1_txt", "weaptype1_txt"}

\* names in lexicographic order; a name's rank is its category code after
\* astype('category') (api.py:71-73), which is what sort_values compares
NameOrder == <<"Afghanistan", "Armed Assault", "Belgium", "Bombing/Explosion",
               "South Asia", "Western Europe", "Zed">>
Rank(n) == CHOOSE i \in 1..Len(NameOrder) : NameOrder[i] = n


-----------------------------------------------------------------------------
(* The dataset (api.py:50-91).                                             *)
(* A row holds the columns the handlers read: iyear, country, country_txt, *)
(* region, region_txt, latitude, attacktype1_txt.  latitude is an option:  *)
(* <<>> is an empty cell (NaN after read_csv).  longitude, nkill, city and *)
(* summary are only copied through to responses and are left out.          *)

Row(y, c, cn, r, rn, lat, at) ==
    [iyear |-> y, country |-> c, country_txt |-> cn, region |-> r,
     region_txt |-> rn, latitude |-> lat, attacktype1_txt |-> at]

\* api.py:59  df_data['latitude'].fillna(0)
FillNa(rows) ==
    [i \in 1..Len(rows) |->
        [rows[i] EXCEPT !.latitude = IF @ = <<>> THEN 0 ELSE @[1]]]

\* the positions of a sequence, as a sequence (a dataframe's default index)
Index(rows) == [i \in 1..Len(rows) |-> i]

\* a finite set of names as the sequence of its elements in category order
RECURSIVE SortedNames(_)
SortedNames(S) ==
    IF S = {} THEN <<>>
    ELSE LET m == CHOOSE n \in S : \A o \in S : Rank(n) <= Rank(o)
         IN  <<m>> \o SortedNames(S \ {m})

\* api.py:79-86  groupby('country_txt').agg(count, first(country)); groupby
\* orders the groups by key.  The means and the nkill sum are left out with
\* the columns they are taken over.
Aggregate(rows) ==
    LET names == SortedNames({ rows[i].country_txt : i \in 1..Len(rows) })
        first(n) == CHOOSE i \in 1..Len(rows) :
                        /\ rows[i].country_txt = n
                        /\ \A j \in 1..(i-1) : rows[j].country_txt # n
    IN  [k \in 1..Len(names) |->
            [country    |-> names[k],
             incidents  |-> Cardinality({ i \in 1..Len(rows) :
                                            rows[i].country_txt = names[k] }),
             country_id |-> rows[first(names[k])].country]]

\* api.py:42-48: the artifact half of load_artifacts.  joblib.load raises on
\* a missing or unreadable file; each global is assigned as soon as its load
\* returns, so a raise leaves the earlier assignments in place.
LoadModelArtifacts(files, mdl, enc) ==
    IF files.model = "absent"
    THEN [model |-> None, scaler |-> None, encoders |-> None, raised |-> FALSE]
    ELSE IF files.model # "ok"
    THEN [model |-> None, scaler |-> None, encoders |-> None, raised |-> TRUE]
    ELSE IF files.scaler # "ok"
    THEN [model |-> Some(mdl), scaler |-> None, encoders |-> None,
          raised |-> TRUE]
    ELSE IF files.encoders # "ok"
    THEN [model |-> Some(mdl), scaler |-> Some("scaler"), encoders |-> None,
          raised |-> TRUE]
    ELSE [model |-> Some(mdl), scaler |-> Some("scaler"),
          encoders |-> Some(enc), raised |-> FALSE]

\* api.py:51-91: the dataset half of load_artifacts, reached only when the
\* artifact half did not raise (both halves share one try block).
LoadDataset(files, rows) ==
    CASE files.data = "absent" ->
            [df_data |-> None, country_stats |-> Some(<<>>)]
      [] files.data = "unreadable" ->
            [df_data |-> None, country_stats |-> None]
      [] files.data = "badcell" ->
            [df_data |-> Some(FillNa(rows)), country_stats |-> None]
      [] OTHER ->
            [df_data |-> Some(FillNa(rows)),
             country_stats |-> Some(Aggregate(FillNa(rows)))]

\* api.py:38-94  load_artifacts, the startup hook
LoadArtifacts ==
    /\ pc = "boot"
    /\ LET a == LoadModelArtifacts(fs, modelFile, encFile)
           d == IF a.raised
                THEN [df_data |-> df_data, country_stats |-> country_stats]
                ELSE LoadDataset(fs, csv)
       IN  /\ model' = a.model
           /\ scaler' = a.scaler
           /\ encoders' = a.encoders
           /\ df_data' = d.df_data
           /\ country_stats' = d.country_stats
    /\ pc' = "serving"
    /\ UNCHANGED <<fs, encFile, modelFile, csv, environ, req, resp, pending>>

\* a handler runs when the pool has a thread for it; a handler inside
\* generate_content keeps its thread
FreeWorker == BagCardinality(pending) < Workers

\* api.py:103-109  health_check
Health ==
    /\ pc = "serving"
    /\ FreeWorker
    /\ req' = [op |-> "health"]
    /\ resp' = [op |-> "health", code |-> 200, status |-> "healthy",
                model_loaded |-> ~IsNone(model),
                data_loaded |-> ~IsNone(df_data)]
    /\ UNCHANGED <<fs, encFile, modelFile, csv, environ, pc, model, scaler,
                   encoders, df_data, country_stats, pending>>


-----------------------------------------------------------------------------
(* Sorting, as pandas does it for sort_values on one column (nargsort):    *)
(* the default kind is quicksort, numpy's index sort of the key array.     *)
(* That sort is an introsort: a range longer than SmallQuicksort is        *)
(* partitioned round the median of its first, middle and last key, the     *)
(* smaller part is sorted first and the larger one stacked; a short range  *)
(* is insertion-sorted; a range reached after 2*floor(log2 n) nested       *)
(* partitions is heap-sorted.  Keys are compared with < alone, so the      *)
(* order of equal keys is whatever these moves leave.                      *)
(* tosort is the array of row positions being permuted; v holds the keys.  *)

Reverse(s) == [i \in 1..Len(s) |-> s[Len(s) + 1 - i]]

Min(a, b) == IF a < b THEN a ELSE b

Swap(a, i, j) == [a EXCEPT ![i] = a[j], ![j] = a[i]]

\* the longest range (last index minus first) quicksort leaves to insertion
\* sort
SmallQuicksort == 16

\* floor(log2 n) for n >= 1
RECURSIVE Msb(_)
Msb(n) == IF n <= 1 THEN 0 ELSE 1 + Msb(n \div 2)

\* if (less(v[*i], v[*j])) INTP_SWAP(*i, *j)
SwapIfLess(v, tosort, i, j) ==
    IF v[tosort[i]] < v[tosort[j]] THEN Swap(tosort, i, j) ELSE tosort

\* the three conditional swaps that put the median of the keys at pl, pm, pr
\* at pm
MedianOfThree(v, tosort, pl, pm, pr) ==
    SwapIfLess(v, SwapIfLess(v, SwapIfLess(v, tosort, pm, pl), pr, pm), pm, pl)

\* the partition loop: pi runs up past the keys below the pivot vp, pj runs
\* down past the keys above it, and the two entries are swapped until the
\* scans meet.  The key at pl and the pivot at pr - 1 stop the scans.
RECURSIVE Scan(_, _, _, _, _, _, _)
Scan(v, tosort, vp, pi, pj, pl, pr) ==
    LET i == CHOOSE k \in (pi + 1)..pr :
                 /\ ~(v[tosort[k]] < vp)
                 /\ \A m \in (pi + 1)..(k - 1) : v[tosort[m]] < vp
        j == CHOOSE k \in pl..(pj - 1) :
                 /\ ~(vp < v[tosort[k]])
                 /\ \A m \in (k + 1)..(pj - 1) : vp < v[tosort[m]]
    IN  IF i >= j THEN [tosort |-> tosort, pi |-> i]
        ELSE Scan(v, Swap(tosort, i, j), vp, i, j, pl, pr)

\* the pivot, the median now at pm, goes to pr - 1 and the scans start from
\* pl and pr - 1
ScanRange(v, tosort, pl, pm, pr) ==
    Scan(v, Swap(tosort, pm, pr - 1), v[tosort[pm]], pl, pr - 1, pl, pr)

\* the pivot goes from pr - 1 to the place pi where the scans met
PlacePivot(scanned, pr) ==
    [tosort |-> Swap(scanned.tosort, scanned.pi, pr - 1), pi |-> scanned.pi]

\* one partition of the range pl..pr: the permuted array and the place pi of
\* the pivot
Partition(v, tosort, pl, pr) ==
    PlacePivot(ScanRange(v, MedianOfThree(v, tosort, pl, pl + ((pr - pl) \div 2),
                                          pr),
                         pl, pl + ((pr - pl) \div 2), pr), pr)

\* insertion sort of the range pl..pr: each entry in turn moves left past
\* the entries with a greater key.  Insert is one pass of the inner loop on
\* the sorted part before it.
Insert(v, sorted, vi) ==
    SelectSeq(sorted, LAMBDA e : ~(v[vi] < v[e])) \o <<vi>>
        \o SelectSeq(sorted, LAMBDA e : v[vi] < v[e])

RECURSIVE InsertFrom(_, _, _, _, _)
InsertFrom(v, tosort, sorted, pi, pr) ==
    IF pi > pr THEN sorted
    ELSE InsertFrom(v, tosort, Insert(v, sorted, tosort[pi]), pi + 1, pr)

\* tosort with the range from pl on replaced by the entries of part
Splice(tosort, pl, part) ==
    [k \in 1..Len(tosort) |->
        IF k < pl \/ k >= pl + Len(part) THEN tosort[k] ELSE part[k - pl + 1]]

InsertionSort(v, tosort, pl, pr) ==
    IF pr < pl THEN tosort
    ELSE Splice(tosort, pl,
                InsertFrom(v, tosort, <<tosort[pl]>>, pl + 1, pr))

\* heap sort of the array h of n entries (indexed from 1): SiftDown is the
\* inner loop that lets tmp sink from place i
RECURSIVE SiftDown(_, _, _, _, _, _)
SiftDown(v, h, tmp, i, j, n) ==
    IF j > n THEN [h EXCEPT ![i] = tmp]
    ELSE LET c == IF j < n /\ v[h[j]] < v[h[j + 1]] THEN j + 1 ELSE j
         IN  IF v[tmp] < v[h[c]]
             THEN SiftDown(v, [h EXCEPT ![i] = h[c]], tmp, c, c + c, n)
             ELSE [h EXCEPT ![i] = tmp]

RECURSIVE Heapify(_, _, _, _)
Heapify(v, h, l, n) ==
    IF l = 0 THEN h
    ELSE Heapify(v, SiftDown(v, h, h[l], l, 2 * l, n), l - 1, n)

RECURSIVE HeapExtract(_, _, _)
HeapExtract(v, h, n) ==
    IF n <= 1 THEN h
    ELSE HeapExtract(v, SiftDown(v, [h EXCEPT ![n] = h[1]], h[n], 1, 2,
                                 n - 1), n - 1)

AHeapSort(v, tosort, pl, pr) ==
    Splice(tosort, pl,
           HeapExtract(v, Heapify(v, SubSeq(tosort, pl, pr),
                                  (pr - pl + 1) \div 2, pr - pl + 1),
                       pr - pl + 1))

\* the sort's outer loop.  stack holds the ranges put aside, each with the
\* depth left to it; the depth is tested only when a range is taken up.
RECURSIVE AQuickSortRange(_, _, _, _, _, _)
RECURSIVE AQuickSortPartition(_, _, _, _, _, _)
RECURSIVE AQuickSortPush(_, _, _, _, _, _)
RECURSIVE AQuickSortPop(_, _, _)
AQuickSortPop(v, tosort, stack) ==
    IF stack = <<>> THEN tosort
    ELSE AQuickSortRange(v, tosort, stack[Len(stack)].pl, stack[Len(stack)].pr,
                         SubSeq(stack, 1, Len(stack) - 1),
                         stack[Len(stack)].depth)

\* after a partition p of pl..pr: the larger part is stacked and the smaller
\* one partitioned next
AQuickSortPush(v, p, pl, pr, stack, cdepth) ==
    IF p.pi - pl < pr - p.pi
    THEN AQuickSortPartition(v, p.tosort, pl, p.pi - 1,
             Append(stack, [pl |-> p.pi + 1, pr |-> pr, depth |-> cdepth - 1]),
             cdepth - 1)
    ELSE AQuickSortPartition(v, p.tosort, p.pi + 1, pr,
             Append(stack, [pl |-> pl, pr |-> p.pi - 1, depth |-> cdepth - 1]),
             cdepth - 1)

AQuickSortPartition(v, tosort, pl, pr, stack, cdepth) ==
    IF pr - pl > SmallQuicksort
    THEN AQuickSortPush(v, Partition(v, tosort, pl, pr), pl, pr, stack, cdepth)
    ELSE AQuickSortPop(v, InsertionSort(v, tosort, pl, pr), stack)

AQuickSortRange(v, tosort, pl, pr, stack, cdepth) ==
    IF cdepth < 0
    THEN AQuickSortPop(v, AHeapSort(v, tosort, pl, pr), stack)
    ELSE AQuickSortPartition(v, tosort, pl, pr, stack, cdepth)

\* keys.argsort(kind='quicksort') by numpy's generic index quicksort, the
\* routine for 8- and 16-bit keys (category codes) and object keys: the
\* positions of keys in ascending key order
ArgSort(keys) ==
    AQuickSortRange(keys, Index(keys), 1, Len(keys), <<>>,
                    2 * Msb(Len(keys)))

\* the indexer p of the reversed keys, as positions of the keys themselves
Mirror(p) == [k \in 1..Len(p) |-> Len(p) + 1 - p[k]]

\* nargsort: a descending sort reverses the keys, sorts them ascending and
\* reverses the resulting indexer
NArgSort(keys, ascending) ==
    IF ascending THEN ArgSort(keys)
    ELSE Reverse(Mirror(ArgSort(Reverse(keys))))

\* seq[order]: the entries of seq in the order of the indexer
Take(seq, order) == [k \in 1..Len(order) |-> seq[order[k]]]

\* .head(n)
Head_(seq, n) == SubSeq(seq, 1, Min(n, Len(seq)))

\* a finite set of integers as an ascending sequence (Series.sort_index)
RECURSIVE SortedInts(_)
SortedInts(S) ==
    IF S = {} THEN <<>>
    ELSE LET m == CHOOSE n \in S : \A o \in S : n <= o
         IN  <<m>> \o SortedInts(S \ {m})

\* the place of keys[i] in ascending key order when equal keys keep their
\* index order
StableRank(keys, i) ==
    1 + Cardinality({ j \in 1..Len(keys) :
                        keys[j] < keys[i] \/ (keys[j] = keys[i] /\ j < i) })

\* the indexer that puts every position at its rank
InverseOf(rank) ==
    [k \in 1..Len(rank) |-> CHOOSE i \in 1..Len(rank) : rank[i] = k]

\* ascending key order with equal keys in index order
StableArgSort(keys) ==
    InverseOf([i \in 1..Len(keys) |-> StableRank(keys, i)])

\* the key values that occur more than once
TiedKeys(keys) ==
    { keys[i] : i \in { j \in 1..Len(keys) :
                           \E l \in 1..Len(keys) : l # j /\ keys[l] = keys[j] } }

\* the places of the indexer p that hold positions with key value
Slots(keys, p, value) == { k \in 1..Len(p) : keys[p[k]] = value }

\* the one-to-one maps of a set of places onto itself
Rearrangements(S) == { f \in [S -> S] : \A a, b \in S : f[a] = f[b] => a = b }

\* p with the entries at the places of f rearranged by f
Permute(p, f) == [k \in 1..Len(p) |-> IF k \in DOMAIN f THEN p[f[k]] ELSE p[k]]

\* the indexers got from those of orders by rearranging, in every way, the
\* entries that hold the key value, and then those of the other tied values
RECURSIVE Shuffles(_, _, _)
ShuffleKey(keys, orders, tied, value) ==
    Shuffles(keys,
             { Permute(p, f) : p \in orders,
                               f \in Rearrangements(Slots(keys, StableArgSort(keys),
                                                        value)) },
             tied \ {value})
Shuffles(keys, orders, tied) ==
    IF tied = {} THEN orders
    ELSE ShuffleKey(keys, orders, tied, CHOOSE value \in tied : TRUE)

\* keys.argsort(kind='quicksort') for 32- and 64-bit keys.  numpy chooses
\* at run time between the index quicksort above and a vectorised sort, by
\* its version and the CPU; kind='quicksort' promises key order and nothing
\* about equal keys, so every indexer in ascending key order is an outcome:
\* the one in index order with the entries of each tied key rearranged in
\* every way.
ArgSorts(keys) == Shuffles(keys, {StableArgSort(keys)}, TiedKeys(keys))

\* nargsort over the indexers argsort may return
NArgSorts(keys, ascending) ==
    IF ascending THEN ArgSorts(keys)
    ELSE { Reverse(Mirror(p)) : p \in ArgSorts(Reverse(keys)) }

-----------------------------------------------------------------------------
(* The read endpoints.                                                     *)

\* api.py:96-101  get_globe_data.  country_stats is read only when df_data
\* is set; reading it while it is unbound raises NameError (HTTP 500).
GlobeData ==
    /\ pc = "serving"
    /\ FreeWorker
    /\ req' = [op |-> "globe_data"]
    /\ resp' = IF IsNone(df_data)
               THEN [op |-> "globe_data", code |-> 200, stats |-> <<>>]
               ELSE IF IsNone(country_stats)
               THEN [op |-> "globe_data", code |-> 500]
               ELSE [op |-> "globe_data", code |-> 200,
                     stats |-> Get(country_stats)]
    /\ UNCHANGED <<fs, encFile, modelFile, csv, environ, pc, model, scaler,
                   encoders, df_data, country_stats, pending>>

\* drop_duplicates on two columns: the (id, name) pairs in order of first
\* appearance
DropDuplicates(pairs) ==
    LET firsts == SelectSeq(Index(pairs), LAMBDA i :
                      \A j \in 1..(i - 1) : pairs[j] # pairs[i])
    IN  [k \in 1..Len(firsts) |-> pairs[firsts[k]]]

\* dict(zip(ids, names)): a dict keeps a key at the position of its first
\* insertion and a later pair with the same key overwrites the value there,
\* so an entry stands where its id first occurs and holds the name of the
\* id's last occurrence
DictZip(pairs) ==
    LET firsts  == SelectSeq(Index(pairs), LAMBDA i :
                      \A j \in 1..(i - 1) : pairs[j].id # pairs[i].id)
        last(i) == CHOOSE j \in i..Len(pairs) :
                      /\ pairs[j].id = pairs[i].id
                      /\ \A l \in (j + 1)..Len(pairs) : pairs[l].id # pairs[i].id
    IN  [k \in 1..Len(firsts) |->
            [id |-> pairs[firsts[k]].id, name |-> pairs[last(firsts[k])].name]]

\* api.py:118-123: one of the two maps of get_metadata, as the sequence of
\* its entries in the order the response carries them
SortByName(uniq) ==
    Take(uniq, NArgSort([i \in 1..Len(uniq) |-> Rank(uniq[i].name)], TRUE))

IdNameMap(pairs) == DictZip(SortByName(DropDuplicates(pairs)))

CountryPairs(rows) ==
    [i \in 1..Len(rows) |-> [id |-> rows[i].country,
                             name |-> rows[i].country_txt]]
RegionPairs(rows) ==
    [i \in 1..Len(rows) |-> [id |-> rows[i].region,
                             name |-> rows[i].region_txt]]

\* get_metadata without the `df_data is None` check: subscripting None
\* raises TypeError
get_metadata_unguarded ==
    IF IsNone(df_data)
    THEN [op |-> "metadata", code |-> 500]
    ELSE [op |-> "metadata", code |-> 200,
          countries |-> IdNameMap(CountryPairs(Get(df_data))),
          regions   |-> IdNameMap(RegionPairs(Get(df_data)))]

\* api.py:111-124  get_metadata
get_metadata ==
    IF IsNone(df_data)
    THEN [op |-> "metadata", code |-> 200, countries |-> <<>>,
          regions |-> <<>>]
    ELSE [op |-> "metadata", code |-> 200,
          countries |-> IdNameMap(CountryPairs(Get(df_data))),
          regions   |-> IdNameMap(RegionPairs(Get(df_data)))]

Metadata ==
    /\ pc = "serving"
    /\ FreeWorker
    /\ req' = [op |-> "metadata"]
    /\ resp' = get_metadata
    /\ UNCHANGED <<fs, encFile, modelFile, csv, environ, pc, model, scaler,
                   encoders, df_data, country_stats, pending>>

\* get_history without .sort_index(): value_counts alone orders the years
\* by falling count, and equal counts by the year's first appearance
get_history_unsorted(country_id) ==
    IF IsNone(df_data)
    THEN [op |-> "history", code |-> 200, status |-> "error",
          message |-> "Data not loaded"]
    ELSE LET rows  == Get(df_data)
             match == { i \in 1..Len(rows) : rows[i].country = country_id }
             n(y)  == Cardinality({ i \in match : rows[i].iyear = y })
             seen  == SelectSeq(Index(rows), LAMBDA i :
                         /\ i \in match
                         /\ \A j \in 1..(i - 1) :
                               j \in match => rows[j].iyear # rows[i].iyear)
             order == NArgSort([k \in 1..Len(seen) |-> n(rows[seen[k]].iyear)],
                               FALSE)
             years == [k \in 1..Len(seen) |-> rows[seen[order[k]]].iyear]
         IN  IF match = {}
             THEN [op |-> "history", code |-> 200, years |-> <<>>,
                   counts |-> <<>>]
             ELSE [op |-> "history", code |-> 200,
                   years |-> years,
                   counts |-> [k \in 1..Len(years) |-> n(years[k])],
                   total_incidents |-> Cardinality(match)]

\* api.py:158-173  get_history
get_history(country_id) ==
    IF IsNone(df_data)
    THEN [op |-> "history", code |-> 200, status |-> "error",
          message |-> "Data not loaded"]
    ELSE LET rows  == Get(df_data)
             match == { i \in 1..Len(rows) : rows[i].country = country_id }
             years == SortedInts({ rows[i].iyear : i \in match })
         IN  IF match = {}
             THEN [op |-> "history", code |-> 200, years |-> <<>>,
                   counts |-> <<>>]
             ELSE [op |-> "history", code |-> 200,
                   years |-> years,
                   counts |-> [k \in 1..Len(years) |->
                                 Cardinality({ i \in match :
                                                rows[i].iyear = years[k] })],
                   total_incidents |-> Cardinality(match)]

\* api.py:188  .head(50)
TopN == 50

\* api.py:182-187: the index labels of the rows that match region and
\* attack type and have latitude # 0
Located(rows, region, attack_type) ==
    SelectSeq(Index(rows), LAMBDA i :
        /\ rows[i].region = region
        /\ rows[i].attacktype1_txt = attack_type
        /\ rows[i].latitude # 0)

\* api.py:188  the sort column: iyear of the rows located (int32 after
\* api.py:75, int64 when astype raised)
YearKeys(rows, located) == [k \in 1..Len(located) |-> rows[located[k]].iyear]

\* SimilarIndex taking the rows in ascending order of year
SimilarIndexAscending(rows, region, attack_type, order) ==
    Head_(Take(Located(rows, region, attack_type), Reverse(order)), TopN)

\* api.py:182-188: the index labels of the rows get_similar keeps, in the
\* order it returns them; order is the indexer sort_values obtained
SimilarIndex(rows, region, attack_type, order) ==
    Head_(Take(Located(rows, region, attack_type), order), TopN)

\* api.py:190  the records of the kept rows
Records(rows, kept) ==
    [k \in 1..Len(kept) |->
        [iyear       |-> rows[kept[k]].iyear,
         latitude    |-> rows[kept[k]].latitude,
         country     |-> rows[kept[k]].country,
         country_txt |-> rows[kept[k]].country_txt]]

\* the response for the kept rows; index is their dataframe index, which the
\* response itself does not carry
SimilarResponse(rows, kept) ==
    [op |-> "similar", code |-> 200, index |-> kept,
     incidents |-> Records(rows, kept)]

\* api.py:175-191  get_similar
get_similar(region, attack_type, order) ==
    IF IsNone(df_data)
    THEN [op |-> "similar", code |-> 200, status |-> "error",
          message |-> "Data not loaded"]
    ELSE SimilarResponse(Get(df_data),
                         SimilarIndex(Get(df_data), region, attack_type, order))

\* api.py:188  the indexers sort_values(by='iyear', ascending=False) may
\* obtain for the rows located
SimilarOrders(region, attack_type) ==
    IF IsNone(df_data) THEN {<<>>}
    ELSE NArgSorts(YearKeys(Get(df_data),
                            Located(Get(df_data), region, attack_type)), FALSE)


QueryCountryIds == {4, 5, 9}
QueryRegions == {6, 8}
QueryAttackTypes == {"Bombing/Explosion", "Armed Assault", "Hijacking"}

History ==
    /\ pc = "serving"
    /\ FreeWorker
    /\ \E country_id \in QueryCountryIds :
          /\ req' = [op |-> "history", country_id |-> country_id]
          /\ resp' = get_history(country_id)
    /\ UNCHANGED <<fs, encFile, modelFile, csv, environ, pc, model, scaler,
                   encoders, df_data, country_stats, pending>>

Similar ==
    /\ pc = "serving"
    /\ FreeWorker
    /\ \E region \in QueryRegions, attack_type \in QueryAttackTypes :
          \E order \in SimilarOrders(region, attack_type) :
             /\ req' = [op |-> "similar", region |-> region,
                        attack_type |-> attack_type]
             /\ resp' = get_similar(region, attack_type, order)
    /\ UNCHANGED <<fs, encFile, modelFile, csv, environ, pc, model, scaler,
                   encoders, df_data, country_stats, pending>>

-----------------------------------------------------------------------------
(* POST /predict (api.py:28-36, 126-156).                                  *)

\* a complete request body; the five integer fields are those of
\* tests/test_api.py:23-32
FullBody(attack, target, weapon) ==
    [iyear |-> 2017, imonth |-> 1, iday |-> 1, country |-> 4, region |-> 6,
     attacktype1_txt |-> attack, targtype1_txt |-> target,
     weaptype1_txt |-> weapon]

Restrict(f, D) == [x \in D |-> f[x]]

\* api.py:28-36: every field of PredictionRequest is declared without a
\* default, so the framework accepts a body only if all eight are present
\* (it answers 422 otherwise and does not call the handler)
Validate(body) == \A f \in Fields : f \in DOMAIN body

\* LabelEncoder.transform of one value: its position in the sorted classes,
\* counted from 0; an unseen value raises ValueError
Seen(classes, v) == \E i \in 1..Len(classes) : classes[i] = v
Transform(classes, v) == (CHOOSE i \in 1..Len(classes) : classes[i] = v) - 1

\* api.py:142-147: the cell of column col after the encoding loop.  A cell
\* is <<"int", n>> or <<"str", s>>: a column that has no encoder keeps the
\* request's string.
EncodeCol(enc, col, v) ==
    IF col \in DOMAIN enc
    THEN IF Seen(enc[col], v)
         THEN <<"int", Transform(enc[col], v)>>
         ELSE <<"int", 0>>
    ELSE <<"str", v>>

\* api.py:149: df[features], the row handed to the scaler
FeatureRow(enc, body) ==
    <<  <<"int", body.iyear>>, <<"int", body.imonth>>, <<"int", body.iday>>,
        <<"int", body.country>>, <<"int", body.region>>,
        EncodeCol(enc, "attacktype1_txt", body.attacktype1_txt),
        EncodeCol(enc, "targtype1_txt", body.targtype1_txt),
        EncodeCol(enc, "weaptype1_txt", body.weaptype1_txt) >>

\* the regressors the model file may hold.  The scaler and the regressor
\* are opaque: scaler.transform raises on a row with a string cell and
\* otherwise the pair maps the row to a float (thousandths), which for a
\* gradient-boosted regressor may be negative.
ModelPool == {"under", "codes"}
ModelPredict(m, X) ==
    IF m = "under" THEN 0 - 2500
    ELSE 1000 * (X[6][2] + X[7][2] + X[8][2]) + 236

\* api.py:151  max(0, float(y))
ClampAtZero(y) == IF y > 0 THEN y ELSE 0

\* api.py:153  round(prediction, 2): thousandths to hundredths, for a
\* non-negative value that is not half-way between two hundredths
Round2(y) == (y + 5) \div 10

\* api.py:127-156  the handler's body
predict(body) ==
    IF IsNone(model)
    THEN [op |-> "predict", code |-> 200, ran |-> TRUE,
          predicted_fatalities |-> 0, status |-> "warning",
          message |-> "Model not loaded."]
    ELSE IF IsNone(encoders)        \* `col in encoders`: TypeError
    THEN [op |-> "predict", code |-> 500, ran |-> TRUE]
    ELSE LET X == FeatureRow(Get(encoders), body)
         IN  IF IsNone(scaler)      \* AttributeError
                \/ \E k \in 1..Len(X) : X[k][1] = "str"   \* ValueError
             THEN [op |-> "predict", code |-> 500, ran |-> TRUE]
             ELSE [op |-> "predict", code |-> 200, ran |-> TRUE,
                   predicted_fatalities |->
                       Round2(ClampAtZero(ModelPredict(Get(model), X))),
                   status |-> "success", features |-> X]

\* post_predict with every field of PredictionRequest given a default: an
\* incomplete body is completed and handled
post_predict_defaults(body) ==
    predict(body @@ FullBody("", "", ""))

\* api.py:126-127  POST /predict: validation, then the handler.  The
\* framework validates the body before it hands the request to a worker
\* thread, so a 422 needs no thread.
post_predict(body) ==
    IF Validate(body) THEN predict(body)
    ELSE [op |-> "predict", code |-> 422, ran |-> FALSE]

AttackInputs == {"Bombing/Explosion", "Sabotage"}
TargetInputs == {"Military"}
WeaponInputs == {"Firearms", "Slingshot"}

\* the field sets of the incomplete bodies: only iyear
\* (tests/test_api.py:45-48), and one field short
PartialFieldSets == {{"iyear"}, Fields \ {"iyear"}, Fields \ {"weaptype1_txt"}}

Bodies ==
    LET full == { FullBody(a, t, w) : a \in AttackInputs, t \in TargetInputs,
                                      w \in WeaponInputs }
    IN  full \cup { Restrict(FullBody("Bombing/Explosion", "Military",
                                      "Firearms"), D) : D \in PartialFieldSets }

Predict ==
    /\ pc = "serving"
    /\ \E body \in Bodies :
          /\ Validate(body) => FreeWorker
          /\ req' = [op |-> "predict", body |-> body]
          /\ resp' = post_predict(body)
    /\ UNCHANGED <<fs, encFile, modelFile, csv, environ, pc, model, scaler,
                   encoders, df_data, country_stats, pending>>


-----------------------------------------------------------------------------
(* POST /genai/advisory (api.py:193-239).                                  *)

\* dict.get(key, default)
DictGet(d, k, default) == IF k \in DOMAIN d THEN d[k] ELSE default

\* Truthy written as `api_key is not None`
TruthyNotNone(key) == ~IsNone(key)

\* `if api_key:` for the option os.getenv returns
Truthy(key) == ~IsNone(key) /\ Get(key) # ""

\* what the remote path may do: raise at one of its steps or return a text
\* ("ok")
RemoteOutcomes == {"import_error", "configure_error", "generate_error",
                   "text_error", "ok"}

\* the outcomes that come after the wait inside generate_content
CallOutcomes == {"generate_error", "text_error", "ok"}

\* api.py:209-219  the prompt, an f-string over country, year, summary_text
Prompt(country, year, summary_text) ==
    <<"You are a global security analyst. [...] incident data in ", country,
      " (circa ", year, ") [...] Incident Context: ", summary_text,
      " Format: [...]">>

\* api.py:229-239  the mock response, an f-string over country and
\* request.get('attack_type', 'violent')
MockResponse(request, country) ==
    [advisory |-> <<"Simulated Security Advisory for ", country,
                    " (API Key not found or Error. Running in Demo Mode)",
                    " Threat Level: High (Simulated) Key Risk: Potential for ",
                    DictGet(request, "attack_type", "violent"),
                    " incidents in public areas. Advice: [...]">>,
     source |-> "Mock (Demo Mode)"]

\* generate_advisory with response.text read after the try block: a raise
\* there is not caught
generate_advisory_text_unguarded(request, api_key, outcome) ==
    LET country      == DictGet(request, "country", "Unknown Country")
        year         == DictGet(request, "year", "Unknown Year")
        summary_text == DictGet(request, "summary_text", "")
        called       == Truthy(api_key)
                          /\ outcome \notin {"import_error", "configure_error"}
        body         == IF Truthy(api_key) /\ outcome = "ok"
                        THEN [advisory |-> <<"(text returned by the service)">>,
                              source |-> "Gemini Pro"]
                        ELSE MockResponse(request, country)
    IN  IF Truthy(api_key) /\ outcome = "text_error"
        THEN [op |-> "advisory", code |-> 500, remote_calls |-> 1,
              prompt |-> Prompt(country, year, summary_text)]
        ELSE [op |-> "advisory", code |-> 200,
              advisory |-> body.advisory, source |-> body.source,
              remote_calls |-> IF called THEN 1 ELSE 0,
              prompt |-> IF called THEN Prompt(country, year, summary_text)
                         ELSE <<>>]

\* api.py:194-239  generate_advisory: the response of a handler that runs
\* to its end.  remote_calls counts the calls of generate_content the
\* handler made; outcome is what the remote path did.
generate_advisory(request, api_key, outcome) ==
    LET country      == DictGet(request, "country", "Unknown Country")
        year         == DictGet(request, "year", "Unknown Year")
        summary_text == DictGet(request, "summary_text", "")
        called       == Truthy(api_key)
                          /\ outcome \notin {"import_error", "configure_error"}
        body         == IF Truthy(api_key) /\ outcome = "ok"
                        THEN [advisory |-> <<"(text returned by the service)">>,
                              source |-> "Gemini Pro"]
                        ELSE MockResponse(request, country)
    IN  [op |-> "advisory", code |-> 200,
         advisory |-> body.advisory, source |-> body.source,
         remote_calls |-> IF called THEN 1 ELSE 0,
         prompt |-> IF called THEN Prompt(country, year, summary_text)
                    ELSE <<>>]


\* the request of tests/test_api.py:101-106, and one that leaves country,
\* year and attack_type to their defaults
AdvisoryRequests ==
    LET full == [country |-> "TestLand", year |-> "2025",
                 summary_text |-> "A test incident occurred.",
                 attack_type |-> "Hijacking"]
    IN  { full, Restrict(full, {"summary_text"}) }

\* a handler inside generate_content, with the request it holds
Waiting(request) == [request |-> request]

\* Advisory with `global model` declared in the handler: the assignment at
\* api.py:207 then replaces the regression model
AdvisoryGlobalModel ==
    /\ pc = "serving"
    /\ FreeWorker
    /\ \E request \in AdvisoryRequests :
          \/ /\ ~Truthy(environ)
             /\ req' = [op |-> "advisory", request |-> request,
                        api_key |-> environ, outcome |-> "not called"]
             /\ resp' = generate_advisory(request, environ, "ok")
             /\ UNCHANGED <<model, pending>>
          \/ /\ Truthy(environ)
             /\ \E outcome \in RemoteOutcomes \ CallOutcomes :
                   /\ req' = [op |-> "advisory", request |-> request,
                              api_key |-> environ, outcome |-> outcome]
                   /\ resp' = generate_advisory(request, environ, outcome)
             /\ UNCHANGED <<model, pending>>
          \/ /\ Truthy(environ)
             /\ pending' = pending (+) SetToBag({Waiting(request)})
             /\ model' = Some("gemini-2.5-flash-lite")
             /\ UNCHANGED <<req, resp>>
    /\ UNCHANGED <<fs, encFile, modelFile, csv, environ, pc, scaler, encoders,
                   df_data, country_stats>>

\* api.py:193-221  POST /genai/advisory, from the request to the response
\* or, when the remote call is made, to the wait inside generate_content.
\* Without a key (api.py:202) and when the import or configure raises
\* (api.py:204-205) the handler answers at once; otherwise it builds the
\* client (`model` at api.py:207 is a local of the handler), calls the
\* service and waits, holding its worker thread.
Advisory ==
    /\ pc = "serving"
    /\ FreeWorker
    /\ \E request \in AdvisoryRequests :
          \/ /\ ~Truthy(environ)
             /\ req' = [op |-> "advisory", request |-> request,
                        api_key |-> environ, outcome |-> "not called"]
             /\ resp' = generate_advisory(request, environ, "ok")
             /\ UNCHANGED pending
          \/ /\ Truthy(environ)
             /\ \E outcome \in RemoteOutcomes \ CallOutcomes :
                   /\ req' = [op |-> "advisory", request |-> request,
                              api_key |-> environ, outcome |-> outcome]
                   /\ resp' = generate_advisory(request, environ, outcome)
             /\ UNCHANGED pending
          \/ /\ Truthy(environ)
             /\ pending' = pending (+) SetToBag({Waiting(request)})
             /\ UNCHANGED <<req, resp>>
    /\ UNCHANGED <<fs, encFile, modelFile, csv, environ, pc, model, scaler,
                   encoders, df_data, country_stats>>

\* api.py:221-239  the rest of the handler h, once generate_content returns
\* or raises: the service's text, or the mock response when the call or the
\* reading of response.text raised.  api.py:221 passes no timeout: when the
\* call ends is the client library's to decide, and an error it raises for
\* a call it gives up is one of the raising outcomes.
AdvisoryReturnOf(h) ==
    /\ pc = "serving"
    /\ BagIn(h, pending)
    /\ \E outcome \in CallOutcomes :
          /\ req' = [op |-> "advisory", request |-> h.request,
                     api_key |-> environ, outcome |-> outcome]
          /\ resp' = generate_advisory(h.request, environ, outcome)
    /\ pending' = pending (-) SetToBag({h})
    /\ UNCHANGED <<fs, encFile, modelFile, csv, environ, pc, model, scaler,
                   encoders, df_data, country_stats>>

AdvisoryReturn == \E h \in BagToSet(pending) : AdvisoryReturnOf(h)

-----------------------------------------------------------------------------
(* The initial states: the process before the startup hook, over the       *)
(* files it may find.                                                      *)

\* the vocabularies train_pipeline.py:48-52 fits, classes in sorted order
EncFull ==
    [attacktype1_txt |-> <<"Armed Assault", "Bombing/Explosion">>,
     targtype1_txt   |-> <<"Military", "Police">>,
     weaptype1_txt   |-> <<"Explosives", "Firearms">>]

\* the dicts encoders.joblib may hold: the trained one, and one that lacks a
\* column (the case `if col in encoders` at api.py:143 provides for)
EncPool == {EncFull, Restrict(EncFull, {"attacktype1_txt", "targtype1_txt"})}

RowPool ==
    { Row(2020, 4, "Afghanistan", 6, "South Asia", <<34>>, "Bombing/Explosion"),
      Row(2021, 4, "Afghanistan", 6, "South Asia", <<35>>, "Bombing/Explosion"),
      Row(2021, 5, "Belgium", 8, "Western Europe", <<50>>, "Armed Assault"),
      \* country id 4 under a second name, latitude missing
      Row(2020, 4, "Zed", 6, "South Asia", <<>>, "Bombing/Explosion"),
      \* region id 8 under a second name, latitude 0
      Row(2019, 5, "Belgium", 8, "South Asia", <<0>>, "Armed Assault") }

\* row i of a long dataset: the years of 2 * BigReps - 3 consecutive values
\* in scattered order, so that rows 1, 2, 3 share their year with the last
\* three rows and rows 1 and 2 * BigReps - 2 hold the earliest year; one
\* row may lack its latitude
LongRow(i, missing) ==
    Row(1970 + (((i - 1) * 5) % (2 * BigReps - 3)), 4, "Afghanistan", 6,
        "South Asia", IF i = missing THEN <<>> ELSE <<34>>,
        "Bombing/Explosion")

LongDataset(missing) == [i \in 1..(2 * BigReps) |-> LongRow(i, missing)]

\* every dataset of up to MaxRows rows, and the long datasets (longer than
\* head(50) keeps) with every row located, with row 1 or with row 4 not
LongDatasets == { LongDataset(missing) : missing \in {0, 1, 4} }

Datasets == UNION { [1..n -> RowPool] : n \in 0..MaxRows } \cup LongDatasets

SampleCsv ==
    << Row(2020, 4, "Afghanistan", 6, "South Asia", <<34>>, "Bombing/Explosion"),
       Row(2021, 4, "Afghanistan", 6, "South Asia", <<35>>, "Bombing/Explosion"),
       Row(2021, 5, "Belgium", 8, "Western Europe", <<50>>, "Armed Assault") >>

AllPresent == [model |-> "ok", scaler |-> "ok", encoders |-> "ok",
               data |-> "ok"]

\* api.py:22-26: the globals as the module leaves them
InitGlobals ==
    /\ pc = "boot"
    /\ model = None
    /\ scaler = None
    /\ encoders = None
    /\ df_data = None
    /\ country_stats = None
    /\ req = [op |-> "none"]
    /\ resp = [op |-> "none", code |-> 0]
    /\ pending = EmptyBag

AllAbsent == [model |-> "absent", scaler |-> "absent", encoders |-> "absent",
              data |-> "absent"]

\* every combination of the four files, over one dataset and the trained
\* artifacts, without a key
InitFiles ==
    /\ fs \in [model : JoblibStatus, scaler : JoblibStatus,
               encoders : JoblibStatus, data : CsvStatus]
    /\ encFile = EncFull
    /\ modelFile = "codes"
    /\ csv = SampleCsv
    /\ environ \in {None, Some("")}

\* every content of the artifact files, with all four files in place
InitArtifacts ==
    /\ fs = AllPresent
    /\ encFile \in EncPool
    /\ modelFile \in ModelPool
    /\ csv = SampleCsv
    /\ environ = None

\* every dataset, with all four files in place
InitData ==
    /\ fs = AllPresent
    /\ encFile = EncFull
    /\ modelFile = "codes"
    /\ csv \in Datasets
    /\ environ = None

\* a key in the environment, with the four files in place and with none
InitEnviron ==
    /\ fs \in {AllPresent, AllAbsent}
    /\ encFile = EncFull
    /\ modelFile = "codes"
    /\ csv = SampleCsv
    /\ environ = Some("secret")

Init == InitGlobals /\ (InitFiles \/ InitArtifacts \/ InitData \/ InitEnviron)

Next ==
    \/ LoadArtifacts
    \/ Health
    \/ Metadata
    \/ GlobeData
    \/ Predict
    \/ History
    \/ Similar
    \/ Advisory
    \/ AdvisoryReturn

Spec == Init /\ [][Next]_vars


-----------------------------------------------------------------------------
(* Properties.                                                             *)

ArtifactsLoaded == ~IsNone(model) /\ ~IsNone(scaler) /\ ~IsNone(encoders)

\* C1: every complete request to /predict, in whatever state the startup
\* hook left the globals, is answered 200 with predicted_fatalities >= 0 and
\* status success or warning; it is never answered with an error.
C1_PredictNeverFails ==
    (resp.op = "predict" /\ Validate(req.body)) =>
        /\ resp.code = 200
        /\ resp.predicted_fatalities >= 0
        /\ resp.status \in {"success", "warning"}

\* C2: once the startup hook has run, model, scaler and encoders are all
\* set or all None.
C2_ArtifactsAllOrNone ==
    pc = "serving" =>
        /\ IsNone(model) <=> IsNone(scaler)
        /\ IsNone(model) <=> IsNone(encoders)

\* column k of the feature row holds categorical column CatCols[k - 5]
Unencodable(enc, col, v) == col \notin DOMAIN enc \/ ~Seen(enc[col], v)

\* C3: with the artifacts loaded, a complete request is answered with status
\* success and a numeric prediction, and every categorical field that cannot
\* be encoded (value outside the vocabulary, or no encoder for the column)
\* enters the feature row as code 0.
C3_UnencodableFallsBackToZero ==
    (resp.op = "predict" /\ Validate(req.body) /\ ArtifactsLoaded) =>
        /\ resp.code = 200
        /\ resp.status = "success"
        /\ resp.predicted_fatalities >= 0
        /\ \A k \in 1..Len(CatCols) :
              Unencodable(Get(encoders), CatCols[k], req.body[CatCols[k]])
                  => resp.features[k + 5] = <<"int", 0>>

\* C4: a body that lacks one of the eight fields is answered 422 without the
\* handler running, whatever the globals hold.
C4_MissingFieldRejected ==
    (resp.op = "predict" /\ ~Validate(req.body)) =>
        resp = [op |-> "predict", code |-> 422, ran |-> FALSE]

\* C4 witness: the body of tests/test_api.py:45-48 rejected while a model is
\* loaded
C4_Witness ==
    /\ resp.op = "predict"
    /\ DOMAIN req.body = {"iyear"}
    /\ ~IsNone(model)
    /\ resp.code = 422


Contains(text, piece) == \E i \in 1..Len(text) : text[i] = piece

RECURSIVE SeqSum(_)
SeqSum(q) == IF q = <<>> THEN 0 ELSE q[1] + SeqSum(Tail(q))

\* the rows of the loaded dataset that get_similar has to choose from
Eligible(rows, region, attack_type) ==
    { i \in 1..Len(rows) : /\ rows[i].region = region
                           /\ rows[i].attacktype1_txt = attack_type
                           /\ rows[i].latitude # 0 }

\* C5: get_similar on a loaded dataset returns at most 50 incidents, each
\* the projection of a distinct row that matches region and attack type and
\* has latitude # 0, in order of non-increasing year, and no eligible row
\* left out is newer than a returned one.
C5_SimilarTopFifty ==
    (resp.op = "similar" /\ ~IsNone(df_data)) =>
        LET rows == Get(df_data)
            kept == resp.index
            inc  == resp.incidents
        IN  /\ resp.code = 200
            /\ Len(inc) <= 50
            /\ Len(inc) = Len(kept)
            /\ \A k \in 1..Len(kept) :
                  /\ kept[k] \in Eligible(rows, req.region, req.attack_type)
                  /\ inc[k].iyear = rows[kept[k]].iyear
                  /\ inc[k].latitude = rows[kept[k]].latitude
                  /\ inc[k].latitude # 0
            /\ \A k, l \in 1..Len(kept) : k < l =>
                  /\ kept[k] # kept[l]
                  /\ inc[k].iyear >= inc[l].iyear
            /\ \A i \in Eligible(rows, req.region, req.attack_type)
                          \ Range(kept) :
                  \A k \in 1..Len(inc) : rows[i].iyear <= inc[k].iyear

\* C5 witness: a result cut at 50 that spans two years, with eligible rows
\* left out
C5_Witness ==
    /\ resp.op = "similar"
    /\ ~IsNone(df_data)
    /\ Len(resp.incidents) = 50
    /\ resp.incidents[1].iyear > resp.incidents[50].iyear
    /\ Eligible(Get(df_data), req.region, req.attack_type)
          \ Range(resp.index) # {}

\* C6: get_history on a loaded dataset returns the distinct years of the
\* country's rows in strictly ascending order with the number of rows in
\* each, and total_incidents equal to the number of rows and to the sum of
\* the counts; for a country with no row it returns two empty lists and no
\* error.
C6_HistoryCounts ==
    (resp.op = "history" /\ ~IsNone(df_data)) =>
        LET rows  == Get(df_data)
            match == { i \in 1..Len(rows) : rows[i].country = req.country_id }
        IN  /\ resp.code = 200
            /\ "status" \notin DOMAIN resp
            /\ Len(resp.years) = Len(resp.counts)
            /\ \A k, l \in 1..Len(resp.years) :
                  k < l => resp.years[k] < resp.years[l]
            /\ Range(resp.years) = { rows[i].iyear : i \in match }
            /\ \A k \in 1..Len(resp.years) :
                  resp.counts[k] = Cardinality({ i \in match :
                                        rows[i].iyear = resp.years[k] })
            /\ match # {} =>
                  /\ resp.total_incidents = Cardinality(match)
                  /\ resp.total_incidents = SeqSum(resp.counts)
            /\ match = {} => resp.years = <<>> /\ resp.counts = <<>>

\* C6 witness: a history over two years, the later one first in the dataset,
\* with unequal counts
C6_Witness ==
    /\ resp.op = "history"
    /\ ~IsNone(df_data)
    /\ Len(resp.years) = 2
    /\ resp.counts[1] = 1
    /\ resp.counts[2] = 2
    /\ Get(df_data)[1].country = req.country_id
    /\ Get(df_data)[1].iyear = resp.years[2]

NoDuplicateIds(map) ==
    \A k, l \in 1..Len(map) : k # l => map[k].id # map[l].id
NameSorted(map) ==
    \A k, l \in 1..Len(map) : k < l => Rank(map[k].name) <= Rank(map[l].name)

\* C7: on a loaded dataset both maps of get_metadata hold each id once and
\* list their entries in ascending order of name.
C7_MetadataSortedNoDuplicates ==
    (resp.op = "metadata" /\ ~IsNone(df_data)) =>
        /\ NoDuplicateIds(resp.countries) /\ NameSorted(resp.countries)
        /\ NoDuplicateIds(resp.regions) /\ NameSorted(resp.regions)

\* C8: with GEMINI_API_KEY unset or empty, generate_advisory makes no remote
\* call and answers 200 with the mock source and a non-empty advisory that
\* contains the country of the request, if it has one.
C8_NoKeyGivesFallback ==
    (resp.op = "advisory" /\ req.api_key \in {None, Some("")}) =>
        /\ resp.code = 200
        /\ resp.remote_calls = 0
        /\ resp.source = "Mock (Demo Mode)"
        /\ resp.advisory # <<>>
        /\ "country" \in DOMAIN req.request =>
              Contains(resp.advisory, req.request.country)

\* C8 witness: the request of tests/test_api.py:101-106, key set to ""
C8_Witness ==
    /\ resp.op = "advisory"
    /\ req.api_key = Some("")
    /\ "country" \in DOMAIN req.request
    /\ resp.source = "Mock (Demo Mode)"

RemoteFailed ==
    /\ resp.op = "advisory"
    /\ ~IsNone(req.api_key) /\ Get(req.api_key) # ""
    /\ req.outcome \in {"import_error", "configure_error", "generate_error",
                        "text_error"}

\* the answer to the same request when no key is configured
NoKeyAnswer == generate_advisory(req.request, None, "ok")

\* C9 as claimed: when a key is configured and the remote path raises,
\* generate_advisory makes at most one call, answers 200 with the fallback
\* of the no-key case, and the fallback embeds the country and the year of
\* the request.
C9_FallbackEmbedsCountryAndYear ==
    RemoteFailed =>
        /\ resp.code = 200
        /\ resp.remote_calls <= 1
        /\ resp.advisory = NoKeyAnswer.advisory
        /\ resp.source = NoKeyAnswer.source
        /\ "country" \in DOMAIN req.request =>
              Contains(resp.advisory, req.request.country)
        /\ "year" \in DOMAIN req.request =>
              Contains(resp.advisory, req.request.year)

\* C9 as amended: when a key is configured and the remote path raises,
\* generate_advisory makes at most one call, answers 200 with the fallback
\* of the no-key case, and the fallback embeds the country of the request
\* (the year goes into the prompt only).
C9_FallbackOnRemoteError ==
    RemoteFailed =>
        /\ resp.code = 200
        /\ resp.remote_calls <= 1
        /\ resp.advisory = NoKeyAnswer.advisory
        /\ resp.source = NoKeyAnswer.source
        /\ resp.source = "Mock (Demo Mode)"
        /\ "country" \in DOMAIN req.request =>
              Contains(resp.advisory, req.request.country)

\* C9 witness: the one call was made and reading its text raised
C9_Witness ==
    /\ RemoteFailed
    /\ req.outcome = "text_error"
    /\ resp.remote_calls = 1
    /\ "country" \in DOMAIN req.request
    /\ "year" \in DOMAIN req.request
    /\ resp.source = "Mock (Demo Mode)"

\* C10: whatever the four files are, /health reports data_loaded by the
\* dataset file alone (true when it is present and sound, false when it is
\* absent or unreadable) and model_loaded by the artifact files alone.
C10_IndependentDegradation ==
    resp.op = "health" =>
        /\ fs.data = "ok" => resp.data_loaded
        /\ fs.data \in {"absent", "unreadable"} => ~resp.data_loaded
        /\ resp.model_loaded <=> fs.model = "ok"


DatasetOps == {"metadata", "globe_data", "history", "similar"}

\* C11 as claimed: with the dataset file absent, metadata, globe_data,
\* history and similar each answer 200 with the empty result of their normal
\* shape (empty maps, empty stats, empty years and counts, empty incidents)
\* and none reports an error.
C11_AbsentDatasetGivesEmptyResults ==
    (fs.data = "absent" /\ resp.op \in DatasetOps) =>
        /\ resp.code = 200
        /\ "status" \notin DOMAIN resp
        /\ resp.op = "metadata" => resp.countries = <<>> /\ resp.regions = <<>>
        /\ resp.op = "globe_data" => resp.stats = <<>>
        /\ resp.op = "history" => resp.years = <<>> /\ resp.counts = <<>>
        /\ resp.op = "similar" => resp.incidents = <<>>

\* C11 as amended: with the dataset file absent, none of the four endpoints
\* answers with an HTTP error; metadata answers with two empty maps and
\* globe_data with an empty stats list, while history and similar answer 200
\* with the payload {status: "error", message: "Data not loaded"} in place
\* of empty lists.
C11_AbsentDatasetDegrades ==
    (fs.data = "absent" /\ resp.op \in DatasetOps) =>
        /\ resp.code = 200
        /\ resp.op = "metadata" =>
              resp = [op |-> "metadata", code |-> 200, countries |-> <<>>,
                      regions |-> <<>>]
        /\ resp.op = "globe_data" =>
              resp = [op |-> "globe_data", code |-> 200, stats |-> <<>>]
        /\ resp.op \in {"history", "similar"} =>
              resp = [op |-> resp.op, code |-> 200, status |-> "error",
                      message |-> "Data not loaded"]

\* C11 witness: /history answered while the dataset file is absent and the
\* model artifacts are loaded
C11_Witness ==
    /\ fs.data = "absent"
    /\ ArtifactsLoaded
    /\ resp.op = "history"
    /\ resp.code = 200
    /\ resp.message = "Data not loaded"


\* C12: once the startup hook has run it does not run again, and no step
\* taken afterwards (any handler, in any order, any number of times)
\* changes model, scaler, encoders, df_data or country_stats.
C12_GlobalsFrozenAfterStartup ==
    [][pc = "serving" =>
          /\ pc' = "serving"
          /\ UNCHANGED <<model, scaler, encoders, df_data, country_stats>>]_vars

\* C12 witness: an advisory obtained from the remote service, its handler
\* having bound a name `model`, while artifacts and dataset are loaded
C12_Witness ==
    /\ pc = "serving"
    /\ ArtifactsLoaded
    /\ ~IsNone(df_data)
    /\ ~IsNone(country_stats)
    /\ resp.op = "advisory"
    /\ resp.source = "Gemini Pro"
    /\ Get(model) \in ModelPool


\* C14: in the result of get_similar, incidents of the same year stand in
\* the order of their rows in the dataset index, and of the eligible rows of
\* a year that the cut-off splits the ones kept come before the ones left
\* out.
C14_SimilarTiesInIndexOrder ==
    (resp.op = "similar" /\ ~IsNone(df_data)) =>
        LET rows == Get(df_data)
            kept == resp.index
        IN  /\ \A k, l \in 1..Len(kept) :
                  (k < l /\ rows[kept[k]].iyear = rows[kept[l]].iyear)
                      => kept[k] < kept[l]
            /\ \A i \in Eligible(rows, req.region, req.attack_type)
                          \ Range(kept) :
                  \A k \in 1..Len(kept) :
                      rows[i].iyear = rows[kept[k]].iyear => kept[k] < i


\* C15: once the startup hook has run, df_data set implies country_stats
\* assigned, and get_globe_data always answers 200 with a stats list, also
\* when the hook raised between reading the dataset and finishing the
\* aggregation.
C15_DatasetImpliesAggregate ==
    pc = "serving" =>
        /\ ~IsNone(df_data) => ~IsNone(country_stats)
        /\ resp.op = "globe_data" =>
              resp.code = 200 /\ "stats" \in DOMAIN resp

====
